---------------------------- MODULE Spec2Model ----------------------------
(***************************************************************************)
(* FinOps Watchtower dashboard: the transport client (src/src/lib/api.ts), *)
(* the run list view (src/unnamed/part_000, component Home) and the run    *)
(* detail view (src/src/pages/RunDetail.tsx).                              *)
(*                                                                         *)
(* Text is a sequence of one-character strings.  A JavaScript value is a   *)
(* record tagged by its type: undefined, null, bool, num, str, arr, obj.   *)
(* An object is the sequence of its own properties in enumeration order.   *)
(***************************************************************************)
EXTENDS Integers, Sequences, FiniteSets

(***************************************************************************)
(* JavaScript values                                                       *)
(***************************************************************************)
Undefined == [t |-> "undefined"]
Null == [t |-> "null"]
Bool(b) == [t |-> "bool", v |-> b]
Num(n) == [t |-> "num", v |-> n]
Str(s) == [t |-> "str", v |-> s]
Arr(a) == [t |-> "arr", v |-> a]
Obj(o) == [t |-> "obj", v |-> o]
Prop(k, x) == [k |-> k, x |-> x]

\* ToBoolean: what `if (x)`, `x ? a : b`, `x && y`, `!x` test.
Truthy(x) ==
    CASE x.t = "undefined" -> FALSE
      [] x.t = "null" -> FALSE
      [] x.t = "bool" -> x.v
      [] x.t = "num" -> x.v # 0
      [] x.t = "str" -> x.v # <<>>
      [] OTHER -> TRUE

\* x ?? y
Nullish(x) == x.t \in {"undefined", "null"}

Coalesce(x, y) == IF Nullish(x) THEN y ELSE x

(***************************************************************************)
(* Text helpers                                                            *)
(***************************************************************************)
Digits == <<"0", "1", "2", "3", "4", "5", "6", "7", "8", "9">>

DigitSet == {Digits[i] : i \in 1..10}

DigitVal(c) == (CHOOSE i \in 1..10 : Digits[i] = c) - 1

RECURSIVE NatText(_)
NatText(n) == IF n < 10 THEN <<Digits[n + 1]>>
              ELSE NatText(n \div 10) \o <<Digits[(n % 10) + 1]>>

\* Number.prototype.toString for the integers the model draws.
IntText(n) == IF n < 0 THEN <<"-">> \o NatText(-n) ELSE NatText(n)

\* The white space String.prototype.trim and JSON.parse skip.
WhiteSpace == {" ", "\n", "\t", "\r"}

RECURSIVE SkipWs(_, _)
SkipWs(s, i) == IF i <= Len(s) /\ s[i] \in WhiteSpace THEN SkipWs(s, i + 1) ELSE i

RECURSIVE TrimEnd(_)
TrimEnd(s) == IF s # <<>> /\ s[Len(s)] \in WhiteSpace
              THEN TrimEnd(SubSeq(s, 1, Len(s) - 1)) ELSE s

\* String.prototype.trim
Trim(s) == TrimEnd(SubSeq(s, SkipWs(s, 1), Len(s)))

RECURSIVE Spaces(_)
Spaces(n) == IF n = 0 THEN <<>> ELSE <<" ">> \o Spaces(n - 1)

(***************************************************************************)
(* JSON.parse, for the JSON fragment the model draws its texts from:       *)
(* white space, null, true, false, integers, strings without escapes,      *)
(* arrays and objects.  A result is [ok, val, pos]: pos is the index       *)
(* after the value read.                                                   *)
(***************************************************************************)
ParseFail == [ok |-> FALSE, val |-> Undefined, pos |-> 0]

ParseOk(x, p) == [ok |-> TRUE, val |-> x, pos |-> p]

ParseWord(s, i, w, x) ==
    IF i + Len(w) - 1 <= Len(s) /\ SubSeq(s, i, i + Len(w) - 1) = w
    THEN ParseOk(x, i + Len(w)) ELSE ParseFail

RECURSIVE ParseDigits(_, _, _)
ParseDigits(s, i, acc) ==
    IF i <= Len(s) /\ s[i] \in DigitSet
    THEN ParseDigits(s, i + 1, acc * 10 + DigitVal(s[i]))
    ELSE ParseOk(Num(acc), i)

\* -? ( 0 | [1-9][0-9]* ); a leading zero followed by a digit is a syntax error.
ParseNumber(s, i) ==
    LET neg == i <= Len(s) /\ s[i] = "-"
        j == IF neg THEN i + 1 ELSE i
    IN  IF j > Len(s) \/ s[j] \notin DigitSet THEN ParseFail
        ELSE IF s[j] = "0"
             THEN IF j + 1 <= Len(s) /\ s[j + 1] \in DigitSet THEN ParseFail
                  ELSE ParseOk(Num(0), j + 1)
             ELSE LET r == ParseDigits(s, j, 0)
                  IN  ParseOk(Num(IF neg THEN -r.val.v ELSE r.val.v), r.pos)

\* The characters of a string up to its closing quote; a control character
\* or a backslash (no escapes in this fragment) is a syntax error.
RECURSIVE ParseChars(_, _, _)
ParseChars(s, i, acc) ==
    IF i > Len(s) THEN ParseFail
    ELSE IF s[i] = "\"" THEN ParseOk(Str(acc), i + 1)
    ELSE IF s[i] \in {"\n", "\t", "\r", "\\"} THEN ParseFail
    ELSE ParseChars(s, i + 1, Append(acc, s[i]))

ParseString(s, i) ==
    IF i <= Len(s) /\ s[i] = "\"" THEN ParseChars(s, i + 1, <<>>) ELSE ParseFail

\* An array index key: the canonical decimal text of an integer.
IsIndexKey(k) ==
    /\ k # <<>>
    /\ \A i \in 1..Len(k) : k[i] \in DigitSet
    /\ (k[1] = "0" => Len(k) = 1)

IndexVal(k) == ParseDigits(k, 1, 0).val.v

RECURSIVE InsertIndexProp(_, _)
\* o \o <<p>> with the index keys kept first, in ascending numeric order.
InsertIndexProp(o, p) ==
    IF o = <<>> THEN <<p>>
    ELSE IF IsIndexKey(o[1].k) /\ IndexVal(o[1].k) < IndexVal(p.k)
         THEN <<o[1]>> \o InsertIndexProp(Tail(o), p)
         ELSE <<p>> \o o

\* obj[k] = x on an ordinary object: an existing key keeps its place, a new
\* index key is enumerated before the string keys, a new string key is last.
SetProp(o, k, x) ==
    IF \E i \in 1..Len(o) : o[i].k = k
    THEN [i \in 1..Len(o) |-> IF o[i].k = k THEN Prop(k, x) ELSE o[i]]
    ELSE IF IsIndexKey(k) THEN InsertIndexProp(o, Prop(k, x))
    ELSE Append(o, Prop(k, x))

RECURSIVE ParseValue(_, _)
RECURSIVE ParseElements(_, _, _)
RECURSIVE ParseMembers(_, _, _)

\* After an element: "," and another element, or "]".
ParseElements(s, i, acc) ==
    LET r == ParseValue(s, i)
    IN  IF ~r.ok THEN ParseFail
        ELSE LET j == SkipWs(s, r.pos)
                 a == Append(acc, r.val)
             IN  IF j > Len(s) THEN ParseFail
                 ELSE IF s[j] = "]" THEN ParseOk(Arr(a), j + 1)
                 ELSE IF s[j] = "," THEN ParseElements(s, j + 1, a)
                 ELSE ParseFail

\* A member "key": value, then "," and another member, or "}".
ParseMembers(s, i, acc) ==
    LET k == ParseString(s, SkipWs(s, i))
    IN  IF ~k.ok THEN ParseFail
        ELSE LET c == SkipWs(s, k.pos)
             IN  IF c > Len(s) \/ s[c] # ":" THEN ParseFail
                 ELSE LET r == ParseValue(s, c + 1)
                      IN  IF ~r.ok THEN ParseFail
                          ELSE LET j == SkipWs(s, r.pos)
                                   o == SetProp(acc, k.val.v, r.val)
                               IN  IF j > Len(s) THEN ParseFail
                                   ELSE IF s[j] = "}" THEN ParseOk(Obj(o), j + 1)
                                   ELSE IF s[j] = "," THEN ParseMembers(s, j + 1, o)
                                   ELSE ParseFail

ParseValue(s, i0) ==
    LET i == SkipWs(s, i0)
    IN  IF i > Len(s) THEN ParseFail
        ELSE CASE s[i] = "n" -> ParseWord(s, i, <<"n", "u", "l", "l">>, Null)
               [] s[i] = "t" -> ParseWord(s, i, <<"t", "r", "u", "e">>, Bool(TRUE))
               [] s[i] = "f" -> ParseWord(s, i, <<"f", "a", "l", "s", "e">>, Bool(FALSE))
               [] s[i] = "\"" -> ParseString(s, i)
               [] s[i] = "[" ->
                    LET j == SkipWs(s, i + 1)
                    IN  IF j <= Len(s) /\ s[j] = "]" THEN ParseOk(Arr(<<>>), j + 1)
                        ELSE ParseElements(s, j, <<>>)
               [] s[i] = "{" ->
                    LET j == SkipWs(s, i + 1)
                    IN  IF j <= Len(s) /\ s[j] = "}" THEN ParseOk(Obj(<<>>), j + 1)
                        ELSE ParseMembers(s, j, <<>>)
               [] s[i] = "-" \/ s[i] \in DigitSet -> ParseNumber(s, i)
               [] OTHER -> ParseFail

\* JSON.parse(text): [ok |-> TRUE, val] or, for a SyntaxError, [ok |-> FALSE].
JSONParse(s) ==
    LET r == ParseValue(s, 1)
    IN  IF r.ok /\ SkipWs(s, r.pos) = Len(s) + 1
        THEN [ok |-> TRUE, val |-> r.val]
        ELSE [ok |-> FALSE, val |-> Undefined]

(***************************************************************************)
(* JSON.stringify(value, null, gap)                                        *)
(***************************************************************************)
RECURSIVE QuoteChars(_)
QuoteChars(s) ==
    IF s = <<>> THEN <<>>
    ELSE (CASE s[1] = "\"" -> <<"\\", "\"">>
            [] s[1] = "\\" -> <<"\\", "\\">>
            [] s[1] = "\n" -> <<"\\", "n">>
            [] s[1] = "\t" -> <<"\\", "t">>
            [] s[1] = "\r" -> <<"\\", "r">>
            [] OTHER -> <<s[1]>>) \o QuoteChars(Tail(s))

Quote(s) == <<"\"">> \o QuoteChars(s) \o <<"\"">>

RECURSIVE JoinParts(_, _, _)
\* parts joined by "," and, with a gap, a line break and the indentation.
JoinParts(parts, ind, gap) ==
    IF parts = <<>> THEN <<>>
    ELSE (IF gap > 0 THEN ind ELSE <<>>) \o parts[1]
         \o (IF Len(parts) > 1
             THEN <<",">> \o (IF gap > 0 THEN <<"\n">> ELSE <<>>)
                  \o JoinParts(Tail(parts), ind, gap)
             ELSE <<>>)

\* open, the joined parts, close; with a gap each part is on a line of its own.
Wrap(open, parts, close, ind, gap) ==
    LET step == ind \o Spaces(gap)
    IN  IF gap > 0
        THEN <<open, "\n">> \o JoinParts(parts, step, gap) \o <<"\n">> \o ind \o <<close>>
        ELSE <<open>> \o JoinParts(parts, step, gap) \o <<close>>

RECURSIVE SerializeValue(_, _, _)
\* SerializeJSONProperty for a value that is not undefined: the text of x at
\* the current indentation ind, each nesting level adding gap spaces.
SerializeValue(x, ind, gap) ==
    CASE x.t = "null" -> <<"n", "u", "l", "l">>
      [] x.t = "bool" -> IF x.v THEN <<"t", "r", "u", "e">>
                         ELSE <<"f", "a", "l", "s", "e">>
      [] x.t = "num" -> IntText(x.v)
      [] x.t = "str" -> Quote(x.v)
      [] x.t = "arr" ->
           IF x.v = <<>> THEN <<"[", "]">>
           ELSE Wrap("[",
                     [i \in 1..Len(x.v) |->
                        IF x.v[i].t = "undefined" THEN <<"n", "u", "l", "l">>
                        ELSE SerializeValue(x.v[i], ind \o Spaces(gap), gap)],
                     "]", ind, gap)
      [] x.t = "obj" ->
           LET kept == SelectSeq(x.v, LAMBDA p : p.x.t # "undefined")
           IN  IF kept = <<>> THEN <<"{", "}">>
               ELSE Wrap("{",
                         [i \in 1..Len(kept) |->
                            Quote(kept[i].k) \o (IF gap > 0 THEN <<":", " ">> ELSE <<":">>)
                            \o SerializeValue(kept[i].x, ind \o Spaces(gap), gap)],
                         "}", ind, gap)

\* JSON.stringify(x): a string, or undefined for undefined.
JSONStringify(x) ==
    IF x.t = "undefined" THEN Undefined ELSE Str(SerializeValue(x, <<>>, 0))

\* JSON.stringify(x, null, 2): a string, or undefined for undefined.
JSONStringify2(x) ==
    IF x.t = "undefined" THEN Undefined ELSE Str(SerializeValue(x, <<>>, 2))

\* String(x) for the values the catch branch of formatJson can see.
StringOf(x) ==
    CASE x.t = "str" -> x.v
      [] x.t = "num" -> IntText(x.v)
      [] x.t = "bool" -> IF x.v THEN <<"t", "r", "u", "e">> ELSE <<"f", "a", "l", "s", "e">>
      [] x.t = "null" -> <<"n", "u", "l", "l">>
      [] x.t = "undefined" -> <<"u", "n", "d", "e", "f", "i", "n", "e", "d">>
      [] OTHER -> <<"[", "o", "b", "j", "e", "c", "t", "]">>

(***************************************************************************)
(* State.  Messages, titles and fixed URL parts are atomic strings; texts  *)
(* the program takes apart (JSON, cursors, identifiers) are sequences of   *)
(* characters.                                                             *)
(***************************************************************************)
VARIABLES
    route,       \* the router: [view, runId, click]; click is the click that navigated
    mount,       \* how many times Home has been mounted: its live instance
    explain,     \* Home useState: the explain toggle
    file,        \* Home useState: the selected File, or null
    jsonText,    \* Home useState: the pasted text
    isCreating,  \* Home useState: the in-flight flag
    pages,       \* Home useInfiniteQuery: data.pages
    listStatus,  \* Home useInfiniteQuery: status and fetchStatus
    runQuery,    \* RunDetail useQuery: [status, fetching, data, error]
    calls,       \* every invocation of a transport operation, in order
    toasts,      \* every toast({...}) call, in order
    downloads,   \* every download exportRunCsv has triggered, in order
    clicks,      \* every user action that started a handler, with its inputs
    stored       \* the backend: what it holds as the run that getRun reads

vars == <<route, mount, explain, file, jsonText, isCreating, pages, listStatus,
          runQuery, calls, toasts, downloads, clicks, stored>>

homeVars == <<mount, explain, file, jsonText, isCreating>>

(***************************************************************************)
(* Bounds                                                                  *)
(***************************************************************************)
\* Transport invocations in one behaviour of the views.
MaxCalls == 3

\* Transport invocations in one behaviour of the bare transport client.
MaxApiCalls == 2

\* Submit and export clicks in one behaviour.
MaxClicks == 2

\* Times the run list view is mounted in one behaviour.
MaxMounts == 2

\* Runs the backend holds.
NumRuns == 3

\* The largest page the backend serves.
PageMax == 2

\* Findings of a run.
MaxFindings == 2

(***************************************************************************)
(* Transport client: src/src/lib/api.ts                                    *)
(***************************************************************************)
RunIdOf(n) == <<"r">> \o NatText(n)

RunIds == {RunIdOf(n) : n \in 1..NumRuns}

\* getHeaders()
GetHeaders == <<[name |-> "x-watchtower-secret", value |-> "SECRET"]>>

\* A request: `pre` id `post` is the path after API_URL, params the
\* URLSearchParams list, query whether "?" and the parameters are appended.
Request(method, pre, id, post, params, headers, body) ==
    [method |-> method, pre |-> pre, id |-> id, post |-> post, params |-> params,
     query |-> (params # <<>>), headers |-> headers, body |-> body]

ListRunsRequest(limit, cursor) ==
    LET p1 == IF Truthy(limit)
              THEN <<[name |-> "limit", value |-> IntText(limit.v)]>> ELSE <<>>
        p2 == IF Truthy(cursor)
              THEN <<[name |-> "cursor", value |-> cursor.v]>> ELSE <<>>
    IN  Request("GET", "/runs", <<>>, "", p1 \o p2, GetHeaders, Undefined)

GetRunRequest(runId) ==
    Request("GET", "/runs/", runId, "", <<>>, GetHeaders, Undefined)

CreateRunFromRowsRequest(rows, expl) ==
    Request("POST", "/run", <<>>, "", <<>>,
            GetHeaders \o <<[name |-> "Content-Type", value |-> "application/json"]>>,
            JSONStringify(Obj(<<Prop(<<"r", "o", "w", "s">>, rows),
                                Prop(<<"e", "x", "p", "l", "a", "i", "n">>, expl)>>)))

\* The body is the FormData entry list.
CreateRunFromFileRequest(f, expl) ==
    Request("POST", "/run", <<>>, "", <<>>, GetHeaders,
            <<[name |-> "file", value |-> f]>>
            \o (IF expl.t # "undefined"
                THEN <<[name |-> "explain", value |-> StringOf(expl)]>> ELSE <<>>))

ExportRunCsvRequest(runId) ==
    Request("GET", "/runs/", runId, "/export.csv", <<>>, GetHeaders, Undefined)

ApiRequest(op, args) ==
    CASE op = "listRuns" -> ListRunsRequest(args.limit, args.cursor)
      [] op = "getRun" -> GetRunRequest(args.runId)
      [] op = "createRunFromRows" -> CreateRunFromRowsRequest(args.rows, args.explain)
      [] op = "createRunFromFile" -> CreateRunFromFileRequest(args.file, args.explain)
      [] op = "exportRunCsv" -> ExportRunCsvRequest(args.runId)

ErrorPrefix(op) ==
    CASE op = "listRuns" -> "Failed to list runs: "
      [] op = "getRun" -> "Failed to get run: "
      [] op = "createRunFromRows" -> "Failed to create run: "
      [] op = "createRunFromFile" -> "Failed to create run from file: "
      [] op = "exportRunCsv" -> "Failed to export CSV: "

\* What fetch has produced for a call (kept for the record): nothing yet.
NoResponse == [net |-> FALSE, ok |-> FALSE, statusText |-> "(pending)", body |-> Undefined]

\* An operation is invoked: it builds its request and calls fetch once, then
\* waits.  `by` is the caller, `inst` the Home instance that called (or 0),
\* `click` the user action whose handler called (or 0).
ApiInvoke(op, args, by, inst, click) ==
    [op |-> op, args |-> args, by |-> by, inst |-> inst, click |-> click,
     sent |-> <<ApiRequest(op, args)>>,
     st |-> "pending", msg |-> "", bodyRead |-> FALSE, resp |-> NoResponse]

\* fetch rejected (no response): the TypeError passes through the operation.
NetworkErrorMessage == "Failed to fetch"

ApiReject(c) == [c EXCEPT !.st = "rejected", !.msg = NetworkErrorMessage]

\* Fault variant: a failed request is issued a second time.
ApiThrowRetry(c, resp) == [c EXCEPT !.sent = @ \o <<ApiRequest(c.op, c.args)>>]

\* if (!response.ok) throw new Error(`...: ${response.statusText}`)
ApiThrow(c, resp) ==
    [c EXCEPT !.st = "rejected", !.msg = ErrorPrefix(c.op) \o resp.statusText]

\* return response.json()  /  const blob = await response.blob() ...
ApiReturn(c, resp) == [c EXCEPT !.st = "resolved", !.bodyRead = TRUE]

\* The operation resumes with fetch's outcome.
ApiSettle(c, resp) ==
    LET d == [c EXCEPT !.resp = resp]
    IN  IF ~resp.net THEN ApiReject(d)
        ELSE IF ~resp.ok THEN ApiThrow(d, resp)
        ELSE ApiReturn(d, resp)

\* exportRunCsv after a 2xx response: the blob URL, the anchor with its
\* download name, the click, the revocation and the anchor's removal.
ExportDownload(c, resp) ==
    [name |-> <<"run-", c.args.runId, ".csv">>, blob |-> resp.body, click |-> c.click,
     clicked |-> TRUE, urlRevoked |-> TRUE, anchorRemoved |-> TRUE]

DownloadsAfter(c, resp) ==
    IF c.op = "exportRunCsv" /\ resp.net /\ resp.ok
    THEN Append(downloads, ExportDownload(c, resp))
    ELSE downloads

Pending(i) == i \in 1..Len(calls) /\ calls[i].st = "pending"

(***************************************************************************)
(* The backend (an external collaborator): what it may answer.             *)
(***************************************************************************)
StatusTexts == {"Not Found", "Internal Server Error"}

NetworkError == [net |-> FALSE, ok |-> FALSE, statusText |-> "", body |-> Undefined]

HttpError(s) == [net |-> TRUE, ok |-> FALSE, statusText |-> s, body |-> Undefined]

HttpOk(b) == [net |-> TRUE, ok |-> TRUE, statusText |-> "OK", body |-> b]

Failures == {NetworkError} \cup {HttpError(s) : s \in StatusTexts}

Min(a, b) == IF a <= b THEN a ELSE b

\* The value of a request's first parameter of that name, or undefined.
RequestParam(req, name) ==
    LET ix == {i \in 1..Len(req.params) : req.params[i].name = name}
    IN  IF ix = {} THEN Undefined
        ELSE Str(req.params[CHOOSE i \in ix : \A j \in ix : i <= j].value)

\* Run summaries, newest first as the backend orders them.
ServerRuns == [n \in 1..NumRuns |-> [t |-> "obj", id |-> RunIdOf(n)]]

\* The cursor naming the position after the first k runs.
CursorFor(k) == Str(NatText(k))

\* Where a list request starts: at the front without a cursor.
RequestedPos(req) ==
    LET c == RequestParam(req, "cursor")
    IN  IF c.t = "undefined" \/ c.v = <<>> THEN 0 ELSE Min(IndexVal(c.v), NumRuns)

RequestedLimit(req) ==
    LET l == RequestParam(req, "limit")
    IN  IF l.t = "undefined" THEN PageMax ELSE Min(IndexVal(l.v), PageMax)

\* ListRunsResponse bodies: any page of at most limit runs from the requested
\* position, with nextCursor omitted, naming the position after the page, or
\* the empty string.
ListPages(req) ==
    LET pos == RequestedPos(req)
        PagesOf(n) ==
            {[t |-> "obj", runs |-> SubSeq(ServerRuns, pos + 1, pos + n), nextCursor |-> nc] :
                nc \in {Undefined, CursorFor(pos + n), Str(<<>>)}}
    IN  UNION {PagesOf(n) : n \in 0..Min(RequestedLimit(req), NumRuns - pos)}

\* A nextCursor that names the position after its page.
ProperCursor(req, page) ==
    page.nextCursor \in {Undefined, CursorFor(RequestedPos(req) + Len(page.runs))}

\* Finding.index, Finding.row, Run.explain, Run.explanation as the backend
\* may send them.
FindingIndexes == {Undefined, Num(0), Num(7)}

RowX1 == <<"{", "\"", "x", "\"", ":", "1", "}">>

RowOops == <<"o", "o", "p", "s">>

RowPayloads ==
    {Undefined, Null, Num(0), Str(<<>>), Str(RowX1), Str(RowOops),
     Str(<<"[", "1", ",", "]">>), Str(<<" ", "7">>),
     Obj(<<Prop(<<"b">>, Arr(<<Num(1)>>)), Prop(<<"1">>, Bool(TRUE))>>)}

Finding(ix, row) ==
    [t |-> "obj", index |-> ix, type |-> "duplicate", reason |-> "seen twice", row |-> row]

\* Findings that differ in their index, and findings that differ in their row.
Findings ==
    {Finding(ix, Str(RowX1)) : ix \in FindingIndexes}
    \cup {Finding(Undefined, row) : row \in RowPayloads}

RECURSIVE SeqsUpTo(_, _)
SeqsUpTo(S, n) ==
    IF n = 0 THEN {<<>>}
    ELSE LET shorter == SeqsUpTo(S, n - 1)
         IN  shorter \cup {Append(q, x) : q \in {r \in shorter : Len(r) = n - 1}, x \in S}

Explains == {Undefined, Bool(FALSE), Bool(TRUE)}

Explanations == {Undefined, Str(<<>>), Str(<<"2", " ", "d", "u", "p", "s">>)}

Run(e, x, f) == [t |-> "obj", explain |-> e, explanation |-> x, findings |-> f]

\* What the backend may hold for a run: nothing, or any Run.
StoredRuns ==
    {Undefined}
    \cup {Run(e, x, Undefined) : e \in Explains, x \in Explanations}
    \cup {Run(Bool(TRUE), Str(<<>>), Arr(q)) : q \in SeqsUpTo(Findings, MaxFindings)}

PlainRun == Run(Bool(FALSE), Undefined, Arr(<<>>))

\* GetRunResponse body: the stored run under the identifier asked for, or a
\* body without a run.
GetRunBodies(req) ==
    {[t |-> "obj",
      run |-> IF stored.t = "undefined" THEN Undefined
              ELSE [t |-> "obj", id |-> req.id, explain |-> stored.explain,
                    explanation |-> stored.explanation, findings |-> stored.findings]]}

\* CreateRunResponse bodies: the identifier of the run just created.
CreateRunBodies == {[t |-> "obj", runId |-> RunIdOf(NumRuns + 1)]}

CsvBlob == Str(<<"c", "s", "v">>)

Bodies(c) ==
    CASE c.op = "listRuns" -> ListPages(c.sent[1])
      [] c.op = "getRun" -> GetRunBodies(c.sent[1])
      [] c.op \in {"createRunFromRows", "createRunFromFile"} -> CreateRunBodies
      [] c.op = "exportRunCsv" -> {CsvBlob}

Responses(c) == Failures \cup {HttpOk(b) : b \in Bodies(c)}

(***************************************************************************)
(* The transport client under an arbitrary caller                          *)
(***************************************************************************)
Ops == {"listRuns", "getRun", "createRunFromRows", "createRunFromFile", "exportRunCsv"}

SomeRows == {Arr(<<>>), Arr(<<Obj(<<Prop(<<"a">>, Num(1))>>)>>)}

SomeFile == [t |-> "file", name |-> "runs.csv"]

ArgSets(op) ==
    CASE op = "listRuns" ->
            [limit : {Undefined, Num(20)}, cursor : {Undefined, CursorFor(1)}]
            \cup {[limit |-> Num(0), cursor |-> Undefined],
                  [limit |-> Undefined, cursor |-> Str(<<>>)]}
      [] op \in {"getRun", "exportRunCsv"} -> [runId : {RunIdOf(1), RunIdOf(NumRuns + 1)}]
      [] op = "createRunFromRows" -> [rows : SomeRows, explain : {Undefined, Bool(TRUE)}]
      [] op = "createRunFromFile" -> [file : {SomeFile}, explain : {Undefined, Bool(FALSE)}]

NoRunQuery == [status |-> "pending", fetching |-> FALSE, data |-> Undefined, error |-> Null]

InitApi ==
    /\ route = [view |-> "none", runId |-> Undefined, click |-> 0]
    /\ mount = 0
    /\ explain = FALSE
    /\ file = Null
    /\ jsonText = <<>>
    /\ isCreating = FALSE
    /\ pages = <<>>
    /\ listStatus = [status |-> "pending", fetching |-> "idle"]
    /\ runQuery = NoRunQuery
    /\ calls = <<>>
    /\ toasts = <<>>
    /\ downloads = <<>>
    /\ clicks = <<>>
    /\ stored \in {Undefined, PlainRun}

\* Some caller invokes an operation.
Call(op) ==
    /\ Len(calls) < MaxApiCalls
    /\ \E args \in ArgSets(op) : calls' = Append(calls, ApiInvoke(op, args, "caller", 0, 0))
    /\ UNCHANGED <<route, homeVars, pages, listStatus, runQuery, toasts, downloads, clicks,
                   stored>>

\* fetch settles for a pending call and the operation runs to its end.
Respond ==
    \E i \in 1..Len(calls) :
        /\ Pending(i)
        /\ \E resp \in Responses(calls[i]) :
              /\ calls' = [calls EXCEPT ![i] = ApiSettle(@, resp)]
              /\ downloads' = DownloadsAfter(calls[i], resp)
        /\ UNCHANGED <<route, homeVars, pages, listStatus, runQuery, toasts, clicks, stored>>

NextApi == (\E op \in Ops : Call(op)) \/ Respond

SpecApi == InitApi /\ [][NextApi]_vars

(***************************************************************************)
(* Run list view, the paginated list: src/unnamed/part_000 (Home).         *)
(* useInfiniteQuery fetches the first page when Home mounts and one more   *)
(* page per fetchNextPage(); hasNextPage is whether getNextPageParam of    *)
(* the last page is neither undefined nor null.  Failed fetches are not    *)
(* repeated here: the QueryClient's retry option is set outside this code. *)
(***************************************************************************)
ListLimit == 20

\* queryFn: ({ pageParam }) => listRuns(20, pageParam)
QueryFn(pageParam) ==
    ApiInvoke("listRuns", [limit |-> Num(ListLimit), cursor |-> pageParam], "useInfiniteQuery",
              mount, 0)

\* getNextPageParam: (lastPage) => lastPage.nextCursor
GetNextPageParam(lastPage) == lastPage.nextCursor

HasNextPage == pages # <<>> /\ ~Nullish(GetNextPageParam(pages[Len(pages)]))

IsLoading == listStatus.status = "pending" /\ listStatus.fetching # "idle"

IsFetchingNextPage == listStatus.fetching = "next"

RECURSIVE FlatMapRuns(_)
FlatMapRuns(ps) == IF ps = <<>> THEN <<>> ELSE ps[1].runs \o FlatMapRuns(Tail(ps))

\* const runs = data?.pages.flatMap(page => page.runs) || []
Runs == FlatMapRuns(pages)

\* The Recent Runs card: the spinner, "No runs yet", or the table.
ListPanel ==
    IF IsLoading THEN "spinner" ELSE IF Len(Runs) = 0 THEN "empty" ELSE "table"

\* {hasNextPage && <Button ...>}, inside the table branch.
LoadMoreRendered == ListPanel = "table" /\ HasNextPage

\* disabled={isFetchingNextPage}
LoadMoreEnabled == LoadMoreRendered /\ ~IsFetchingNextPage

HomeShown == route.view = "home"

\* A click on the "Load more" button: fetchNextPage().
LoadMoreClick ==
    /\ HomeShown
    /\ LoadMoreEnabled
    /\ Len(calls) < MaxCalls
    /\ calls' = Append(calls, QueryFn(GetNextPageParam(pages[Len(pages)])))
    /\ listStatus' = [listStatus EXCEPT !.fetching = "next"]
    /\ UNCHANGED <<route, homeVars, pages, runQuery, toasts, downloads, clicks, stored>>

\* Fault variant: a fetched page is put in front of the accumulated ones.
PagesAfterPrepend(page) == IF listStatus.fetching = "next" THEN <<page>> \o pages ELSE <<page>>

\* The pages after a page has arrived: the first page starts the list, a
\* next page is appended.
PagesAfter(page) == IF listStatus.fetching = "next" THEN Append(pages, page) ELSE <<page>>

\* A list request settles: the query takes the page, or records the error
\* and keeps the pages it has.
ListSettle ==
    \E i \in 1..Len(calls) :
        /\ Pending(i)
        /\ calls[i].op = "listRuns"
        /\ \E resp \in Responses(calls[i]) :
              LET c == ApiSettle(calls[i], resp)
              IN  /\ calls' = [calls EXCEPT ![i] = c]
                  /\ IF c.st = "resolved"
                     THEN /\ pages' = PagesAfter(resp.body)
                          /\ listStatus' = [status |-> "success", fetching |-> "idle"]
                     ELSE /\ pages' = pages
                          /\ listStatus' = [status |-> "error", fetching |-> "idle"]
        /\ UNCHANGED <<route, homeVars, runQuery, toasts, downloads, clicks, stored>>

\* Home has just mounted with an empty query cache: the first page is asked for.
InitList ==
    /\ route = [view |-> "home", runId |-> Undefined, click |-> 0]
    /\ mount = 1
    /\ explain = FALSE
    /\ file = Null
    /\ jsonText = <<>>
    /\ isCreating = FALSE
    /\ pages = <<>>
    /\ listStatus = [status |-> "pending", fetching |-> "first"]
    /\ runQuery = NoRunQuery
    /\ calls = <<ApiInvoke("listRuns", [limit |-> Num(ListLimit), cursor |-> Undefined],
                           "useInfiniteQuery", 1, 0)>>
    /\ toasts = <<>>
    /\ downloads = <<>>
    /\ clicks = <<>>
    /\ stored = Undefined

NextList == LoadMoreClick \/ ListSettle

SpecList == InitList /\ [][NextList]_vars

(***************************************************************************)
(* Run list view, the "New Analysis Run" card and the row actions:         *)
(* src/unnamed/part_000 (Home).  Leaving Home unmounts it and drops its    *)
(* useState values; coming back mounts a new instance with the initial     *)
(* ones.  A handler that is waiting keeps running after its instance is    *)
(* gone: its toast and navigate calls act, its setIsCreating does nothing. *)
(***************************************************************************)
Toast(title, description, variant, k) ==
    [title |-> title, description |-> description, variant |-> variant, click |-> k]

\* A thrown value; every value thrown in this code is an Error.
Err(message) == [t |-> "error", message |-> message]

\* error instanceof Error
IsError(e) == e.t = "error"

\* JSON.parse's SyntaxError; the message text is the engine's.
SyntaxErrorValue == Err("Unexpected token")

\* The texts a user pastes.
JsonTexts == {<<>>, RowOops, RowX1, <<" ", "[", "{", "}", "]", "\n">>}

Click(h, text) == [h |-> h, text |-> text, inst |-> mount]

\* disabled={!file || isCreating}
FileButtonDisabled == ~Truthy(file) \/ isCreating

\* disabled={!jsonText.trim() || isCreating}
JsonButtonDisabled == ~Truthy(Str(Trim(jsonText))) \/ isCreating

SetExplain ==
    /\ HomeShown
    /\ explain' = ~explain
    /\ UNCHANGED <<route, mount, file, jsonText, isCreating, pages, listStatus, runQuery,
                   calls, toasts, downloads, clicks, stored>>

\* onChange={(e) => setFile(e.target.files?.[0] || null)}
SetFile ==
    /\ HomeShown
    /\ \E f \in {Null, SomeFile} \ {file} : file' = f
    /\ UNCHANGED <<route, mount, explain, jsonText, isCreating, pages, listStatus, runQuery,
                   calls, toasts, downloads, clicks, stored>>

SetJsonText ==
    /\ HomeShown
    /\ \E txt \in JsonTexts \ {jsonText} : jsonText' = txt
    /\ UNCHANGED <<route, mount, explain, file, isCreating, pages, listStatus, runQuery,
                   calls, toasts, downloads, clicks, stored>>

\* The catch blocks: description: error instanceof Error ? error.message : fallback
CatchToast(e, fallback, k) ==
    Toast("Failed to create run", IF IsError(e) THEN e.message ELSE fallback, "destructive", k)

\* handleFileUpload up to its await.
HandleFileUpload(k) ==
    IF ~Truthy(file)
    THEN /\ toasts' = Append(toasts, Toast("No file selected", "", "destructive", k))
         /\ UNCHANGED <<isCreating, calls>>
    ELSE /\ isCreating' = TRUE
         /\ calls' = Append(calls, ApiInvoke("createRunFromFile",
                                             [file |-> file, explain |-> Bool(explain)],
                                             "handleFileUpload", mount, k))
         /\ UNCHANGED toasts

\* A click on "Create run from file".
FileUploadClick ==
    /\ HomeShown
    /\ ~FileButtonDisabled
    /\ Len(clicks) < MaxClicks
    /\ Len(calls) < MaxCalls
    /\ clicks' = Append(clicks, Click("handleFileUpload", <<>>))
    /\ HandleFileUpload(Len(clicks) + 1)
    /\ UNCHANGED <<route, mount, explain, file, jsonText, pages, listStatus, runQuery,
                   downloads, stored>>

\* Fault variant: every parsed value is taken as rows.
RowsAcceptedIfParsed(x) == TRUE

\* if (!Array.isArray(rows)) throw ...
RowsAccepted(x) == x.t = "arr"

\* handleJsonSubmit up to its await, or to its end when it throws before.
HandleJsonSubmit(k) ==
    IF ~Truthy(Str(Trim(jsonText)))
    THEN /\ toasts' = Append(toasts, Toast("No JSON provided", "", "destructive", k))
         /\ UNCHANGED <<isCreating, calls>>
    ELSE LET parsed == JSONParse(jsonText)
         IN  IF ~parsed.ok
             THEN /\ toasts' = Append(toasts, CatchToast(SyntaxErrorValue, "Invalid JSON", k))
                  /\ isCreating' = FALSE
                  /\ UNCHANGED calls
             ELSE IF ~RowsAccepted(parsed.val)
             THEN /\ toasts' = Append(toasts, CatchToast(Err("JSON must be an array of rows"),
                                                         "Invalid JSON", k))
                  /\ isCreating' = FALSE
                  /\ UNCHANGED calls
             ELSE /\ isCreating' = TRUE
                  /\ calls' = Append(calls, ApiInvoke("createRunFromRows",
                                                      [rows |-> parsed.val,
                                                       explain |-> Bool(explain)],
                                                      "handleJsonSubmit", mount, k))
                  /\ UNCHANGED toasts

\* A click on "Create run from JSON".
JsonSubmitClick ==
    /\ HomeShown
    /\ ~JsonButtonDisabled
    /\ Len(clicks) < MaxClicks
    /\ Len(calls) < MaxCalls
    /\ clicks' = Append(clicks, Click("handleJsonSubmit", jsonText))
    /\ HandleJsonSubmit(Len(clicks) + 1)
    /\ UNCHANGED <<route, mount, explain, file, jsonText, pages, listStatus, runQuery,
                   downloads, stored>>

\* The route after navigate(`/run/${id}`), from the handler of click k.
DetailRoute(id, k) == [view |-> "detail", runId |-> Str(id), click |-> k]

\* Where a create handler leaves the router once its request has settled as c.
RouteAfterCreate(c, resp) ==
    IF c.st = "resolved" THEN DetailRoute(resp.body.runId, c.click) ELSE route

\* Fault variant: a failed create drops the selected file.
FormAfterCreateClearsFile(c) ==
    IF HomeShown /\ c.st = "resolved"
    THEN [explain |-> FALSE, file |-> Null, jsonText |-> <<>>, isCreating |-> FALSE]
    ELSE [explain |-> explain, file |-> Null, jsonText |-> jsonText,
          isCreating |-> IF HomeShown /\ c.inst = mount THEN FALSE ELSE isCreating]

\* Fault variant: no finally block, a failed create leaves the flag set.
FormAfterCreateNoFinally(c) ==
    IF HomeShown /\ c.st = "resolved"
    THEN [explain |-> FALSE, file |-> Null, jsonText |-> <<>>, isCreating |-> FALSE]
    ELSE [explain |-> explain, file |-> file, jsonText |-> jsonText, isCreating |-> isCreating]

\* The useState values once a create handler has run to its end: a failure
\* touches only isCreating (the finally), and only of a live instance.
FormAfterCreate(c) ==
    IF HomeShown /\ c.st = "resolved"
    THEN [explain |-> FALSE, file |-> Null, jsonText |-> <<>>, isCreating |-> FALSE]
    ELSE [explain |-> explain, file |-> file, jsonText |-> jsonText,
          isCreating |-> IF HomeShown /\ c.inst = mount THEN FALSE ELSE isCreating]

\* A create request settles and its handler runs to its end: the success
\* toast and the navigation, or the catch block's toast; then the finally.
CreateSettle ==
    \E i \in 1..Len(calls) :
        /\ Pending(i)
        /\ calls[i].op \in {"createRunFromRows", "createRunFromFile"}
        /\ \E resp \in Responses(calls[i]) :
              LET c == ApiSettle(calls[i], resp)
                  form == FormAfterCreate(c)
              IN  /\ calls' = [calls EXCEPT ![i] = c]
                  /\ toasts' = Append(toasts,
                        IF c.st = "resolved"
                        THEN Toast("Run created successfully", "", "default", c.click)
                        ELSE CatchToast(Err(c.msg),
                                        IF c.by = "handleFileUpload" THEN "Unknown error"
                                        ELSE "Invalid JSON", c.click))
                  /\ route' = RouteAfterCreate(c, resp)
                  /\ explain' = form.explain
                  /\ file' = form.file
                  /\ jsonText' = form.jsonText
                  /\ isCreating' = form.isCreating
        /\ UNCHANGED <<mount, pages, listStatus, runQuery, downloads, clicks, stored>>

\* A click on a row's "Open": navigate(`/run/${run.id}`); Home unmounts.
OpenClick ==
    /\ HomeShown
    /\ ListPanel = "table"
    /\ \E n \in 1..Len(Runs) : route' = DetailRoute(Runs[n].id, 0)
    /\ explain' = FALSE
    /\ file' = Null
    /\ jsonText' = <<>>
    /\ isCreating' = FALSE
    /\ UNCHANGED <<mount, pages, listStatus, runQuery, calls, toasts, downloads, clicks,
                   stored>>

\* The detail view's "Back": navigate("/"); a new Home instance mounts and
\* shows the pages the query cache holds.
BackClick ==
    /\ route.view = "detail"
    /\ mount < MaxMounts
    /\ route' = [view |-> "home", runId |-> Undefined, click |-> 0]
    /\ mount' = mount + 1
    /\ UNCHANGED <<explain, file, jsonText, isCreating, pages, listStatus, runQuery, calls,
                   toasts, downloads, clicks, stored>>

\* Home is mounted and its list has loaded: one final page with one run.
InitForm ==
    /\ route = [view |-> "home", runId |-> Undefined, click |-> 0]
    /\ mount = 1
    /\ explain = FALSE
    /\ file = Null
    /\ jsonText = <<>>
    /\ isCreating = FALSE
    /\ pages = <<[t |-> "obj", runs |-> <<ServerRuns[1]>>, nextCursor |-> Undefined]>>
    /\ listStatus = [status |-> "success", fetching |-> "idle"]
    /\ runQuery = NoRunQuery
    /\ calls = <<>>
    /\ toasts = <<>>
    /\ downloads = <<>>
    /\ clicks = <<>>
    /\ stored = Undefined

NextForm ==
    \/ SetExplain
    \/ SetFile
    \/ SetJsonText
    \/ FileUploadClick
    \/ JsonSubmitClick
    \/ CreateSettle
    \/ OpenClick
    \/ BackClick

SpecForm == InitForm /\ [][NextForm]_vars

\* The same view when every outstanding create request settles in the end.
SpecFormSettling == InitForm /\ [][NextForm]_vars /\ WF_vars(CreateSettle)

(***************************************************************************)
(* Run detail view: src/src/pages/RunDetail.tsx.  useQuery fetches when    *)
(* the view mounts if `enabled`; a disabled query never runs its queryFn   *)
(* and stays pending and idle.  isLoading is pending-and-fetching (the     *)
(* query library version that Home's initialPageParam belongs to).         *)
(***************************************************************************)
\* enabled: !!runId
QueryEnabled == Truthy(route.runId)

\* queryFn: what it does when the query runs it for the identifier id.
RunQueryFn(id) ==
    IF ~Truthy(id) THEN [threw |-> TRUE, error |-> Err("No run ID provided")]
    ELSE [threw |-> FALSE, call |-> ApiInvoke("getRun", [runId |-> id.v], "useQuery", 0, 0)]

\* The query state and the calls right after RunDetail mounts for id.
RunQueryAtMount(id) ==
    IF ~Truthy(id) THEN NoRunQuery ELSE [NoRunQuery EXCEPT !.fetching = TRUE]

CallsAtMount(id) == IF ~Truthy(id) THEN <<>> ELSE <<RunQueryFn(id).call>>

DetailShown == route.view = "detail"

DetailIsLoading == runQuery.status = "pending" /\ runQuery.fetching

\* const run = data?.run
RunOf == IF Nullish(runQuery.data) THEN Undefined ELSE runQuery.data.run

\* Fault variant: the error panel only for a thrown error.
DetailScreenErrorOnly ==
    IF runQuery.status = "pending" /\ runQuery.fetching THEN "loading"
    ELSE IF Truthy(runQuery.error) THEN "error"
    ELSE "content"

\* if (isLoading) ... ; if (error || !run) ... ; otherwise the run.
DetailScreen ==
    IF DetailIsLoading THEN "loading"
    ELSE IF Truthy(runQuery.error) \/ ~Truthy(RunOf) THEN "error"
    ELSE "content"

\* {error instanceof Error ? error.message : "Failed to load run details"}
ErrorPanelMessage ==
    IF IsError(runQuery.error) THEN runQuery.error.message ELSE "Failed to load run details"

\* Fault variant: the panel depends on the explain flag alone.
ExplanationPanelIfExplain == DetailScreen = "content" /\ Truthy(RunOf.explain)

\* {run.explain && run.explanation && (<Card> ... </Card>)}
ExplanationPanelRendered ==
    DetailScreen = "content" /\ Truthy(RunOf.explain) /\ Truthy(RunOf.explanation)

\* formatJson
FormatJson(obj) ==
    IF obj.t = "str"
    THEN LET parsed == JSONParse(obj.v)
         IN  IF parsed.ok THEN JSONStringify2(parsed.val) ELSE Str(StringOf(obj))
    ELSE JSONStringify2(obj)

Dash == <<"-", "-">>

\* {finding.row ? <pre>{formatJson(finding.row)}</pre> : <span>(dash)</span>}
RowCell(finding) ==
    IF Truthy(finding.row) THEN [pre |-> TRUE, text |-> FormatJson(finding.row)]
    ELSE [pre |-> FALSE, text |-> Str(Dash)]

\* Fault variant: finding.index || idx.
IndexCellOr(finding, idx) == IF Truthy(finding.index) THEN finding.index ELSE Num(idx)

\* {finding.index ?? idx}
IndexCell(finding, idx) == Coalesce(finding.index, Num(idx))

\* !run.findings || run.findings.length === 0
NoFindings == ~Truthy(RunOf.findings) \/ Len(RunOf.findings.v) = 0

\* run.findings.map((finding, idx) => <TableRow key={idx}> ...): idx from 0.
FindingsRows ==
    IF DetailScreen # "content" \/ NoFindings THEN <<>>
    ELSE LET fs == RunOf.findings.v
         IN  [n \in 1..Len(fs) |->
                 [key |-> n - 1, index |-> IndexCell(fs[n], n - 1), type |-> fs[n].type,
                  reason |-> fs[n].reason, row |-> RowCell(fs[n])]]

\* The getRun request settles and the query takes the data or the error.
RunSettle ==
    \E i \in 1..Len(calls) :
        /\ Pending(i)
        /\ calls[i].op = "getRun"
        /\ \E resp \in Responses(calls[i]) :
              LET c == ApiSettle(calls[i], resp)
              IN  /\ calls' = [calls EXCEPT ![i] = c]
                  /\ runQuery' =
                        IF c.st = "resolved"
                        THEN [status |-> "success", fetching |-> FALSE, data |-> resp.body,
                              error |-> Null]
                        ELSE [status |-> "error", fetching |-> FALSE, data |-> Undefined,
                              error |-> Err(c.msg)]
        /\ UNCHANGED <<route, homeVars, pages, listStatus, toasts, downloads, clicks, stored>>

(***************************************************************************)
(* Export, from a row of the list (Home.handleExport) and from the detail  *)
(* view's header (RunDetail.handleExport).                                 *)
(***************************************************************************)
\* Home: onClick={() => handleExport(run.id)}
HomeExportClick ==
    /\ HomeShown
    /\ ListPanel = "table"
    /\ Len(clicks) < MaxClicks
    /\ Len(calls) < MaxCalls
    /\ \E n \in 1..Len(Runs) :
          calls' = Append(calls, ApiInvoke("exportRunCsv", [runId |-> Runs[n].id],
                                           "Home.handleExport", mount, Len(clicks) + 1))
    /\ clicks' = Append(clicks, Click("Home.handleExport", <<>>))
    /\ UNCHANGED <<route, homeVars, pages, listStatus, runQuery, toasts, downloads, stored>>

\* RunDetail: the "Export CSV" button of the content screen.
DetailExportClick ==
    /\ DetailShown
    /\ DetailScreen = "content"
    /\ Len(clicks) < MaxClicks
    /\ Len(calls) < MaxCalls
    /\ clicks' = Append(clicks, Click("RunDetail.handleExport", <<>>))
    /\ IF ~Truthy(route.runId) THEN calls' = calls
       ELSE calls' = Append(calls, ApiInvoke("exportRunCsv", [runId |-> route.runId.v],
                                             "RunDetail.handleExport", 0, Len(clicks) + 1))
    /\ UNCHANGED <<route, homeVars, pages, listStatus, runQuery, toasts, downloads, stored>>

\* Fault variant: the success toast whatever the outcome.
ExportToastAlwaysSuccess(c) == Toast("CSV exported successfully", "", "default", c.click)

\* handleExport after its await: the success toast, or the catch's toast.
ExportToast(c) ==
    IF c.st = "resolved" THEN Toast("CSV exported successfully", "", "default", c.click)
    ELSE Toast("Failed to export CSV", c.msg, "destructive", c.click)

\* An export request settles: exportRunCsv downloads or throws, and the
\* handler that awaited it toasts.
ExportSettle ==
    \E i \in 1..Len(calls) :
        /\ Pending(i)
        /\ calls[i].op = "exportRunCsv"
        /\ \E resp \in Responses(calls[i]) :
              LET c == ApiSettle(calls[i], resp)
              IN  /\ calls' = [calls EXCEPT ![i] = c]
                  /\ downloads' = DownloadsAfter(calls[i], resp)
                  /\ toasts' = Append(toasts, ExportToast(c))
        /\ UNCHANGED <<route, homeVars, pages, listStatus, runQuery, clicks, stored>>

TwoRunPage == [t |-> "obj", runs |-> SubSeq(ServerRuns, 1, 2), nextCursor |-> Undefined]

\* The list has loaded; the user is on it, or has opened its first run.
InitExport ==
    /\ \E id \in {Undefined, Str(RunIdOf(1))} :
          /\ route = [view |-> IF Truthy(id) THEN "detail" ELSE "home", runId |-> id,
                      click |-> 0]
          /\ runQuery = RunQueryAtMount(id)
          /\ calls = CallsAtMount(id)
    /\ mount = 1
    /\ explain = FALSE
    /\ file = Null
    /\ jsonText = <<>>
    /\ isCreating = FALSE
    /\ pages = <<TwoRunPage>>
    /\ listStatus = [status |-> "success", fetching |-> "idle"]
    /\ toasts = <<>>
    /\ downloads = <<>>
    /\ clicks = <<>>
    /\ stored = PlainRun

NextExport == HomeExportClick \/ DetailExportClick \/ ExportSettle \/ RunSettle \/ BackClick

SpecExport == InitExport /\ [][NextExport]_vars

\* The detail view has just mounted, with or without a run identifier.
InitDetail ==
    /\ \E id \in {Undefined, Str(RunIdOf(1))} :
          /\ route = [view |-> "detail", runId |-> id, click |-> 0]
          /\ runQuery = RunQueryAtMount(id)
          /\ calls = CallsAtMount(id)
    /\ mount = 0
    /\ explain = FALSE
    /\ file = Null
    /\ jsonText = <<>>
    /\ isCreating = FALSE
    /\ pages = <<>>
    /\ listStatus = [status |-> "pending", fetching |-> "idle"]
    /\ toasts = <<>>
    /\ downloads = <<>>
    /\ clicks = <<>>
    /\ stored \in StoredRuns

NextDetail == RunSettle \/ DetailExportClick \/ ExportSettle

SpecDetail == InitDetail /\ [][NextDetail]_vars

(***************************************************************************)
(* Properties                                                              *)
(***************************************************************************)
LastPage == pages[Len(pages)]

\* C1: in the run list view, once a page has been fetched, the "Load more"
\* control is offered exactly when the most recently fetched page included
\* a nextCursor, whatever the page holds (also no runs, also an empty-string
\* cursor).
C1_LoadMoreIffLastPageHasCursor ==
    (HomeShown /\ pages # <<>>) =>
        (LoadMoreRendered <=> LastPage.nextCursor.t # "undefined")

IsPrefix(a, b) == Len(a) <= Len(b) /\ SubSeq(b, 1, Len(a)) = a

NoDuplicateIds(rs) == \A i, j \in 1..Len(rs) : rs[i].id = rs[j].id => i = j

\* The backend has kept to cursors that name the position after each page.
CursorsPartition == \A k \in 1..Len(pages) : pages[k].nextCursor # Str(<<>>)

\* C2: against a backend whose pages partition its ordered run list by
\* cursor, the displayed runs (all accumulated pages, flattened) are always
\* a prefix of the backend's order and hold no run identifier twice.
C2_DisplayedRunsArePrefixWithoutDuplicates ==
    CursorsPartition => IsPrefix(Runs, ServerRuns) /\ NoDuplicateIds(Runs)

C2_Witness_AllRunsOverSeveralPages ==
    CursorsPartition /\ Len(pages) >= 2 /\ Runs = ServerRuns

\* C9: every transport operation issues exactly one HTTP request per
\* invocation, and on a non-2xx response throws an error whose message ends
\* with the response's status text, without reading the body; a request is
\* never issued again after a failure.
C9_OneRequestAndStatusTextError ==
    \A i \in 1..Len(calls) :
        LET c == calls[i]
        IN  /\ Len(c.sent) = 1
            /\ (c.resp.net /\ ~c.resp.ok) =>
                  /\ c.st = "rejected"
                  /\ ~c.bodyRead
                  /\ \E op \in Ops : c.msg = ErrorPrefix(op) \o c.resp.statusText

C9_Witness_EveryOperationFailsOnce ==
    /\ Len(calls) = MaxApiCalls
    /\ \A i \in 1..Len(calls) : calls[i].st = "rejected" /\ calls[i].resp.net
    /\ \E i, j \in 1..Len(calls) : calls[i].op # calls[j].op

CallsOf(k) == {i \in 1..Len(calls) : calls[i].click = k}

ToastsOf(k) == {j \in 1..Len(toasts) : toasts[j].click = k}

DownloadsOf(k) == {d \in 1..Len(downloads) : downloads[d].click = k}

JsonSubmissions == {k \in 1..Len(clicks) : clicks[k].h = "handleJsonSubmit"}

\* C3: on JSON submission, a text that parses to a value that is not an
\* array (such as {"x":1}) issues no createRunFromRows request, navigates
\* nowhere and shows a failure notification with the message "JSON must be
\* an array of rows"; a text that does not parse issues no request either
\* and shows a failure notification.
C3_NonArrayJsonIsRejectedBeforeAnyRequest ==
    \A k \in JsonSubmissions :
        LET parsed == JSONParse(clicks[k].text)
        IN  (~parsed.ok \/ parsed.val.t # "arr") =>
              /\ CallsOf(k) = {}
              /\ \A i \in 1..Len(calls) :
                    calls[i].op = "createRunFromRows" => calls[i].args.rows.t = "arr"
              /\ route.click # k
              /\ ToastsOf(k) # {}
              /\ \A j \in ToastsOf(k) :
                    /\ toasts[j].variant = "destructive"
                    /\ toasts[j].title = "Failed to create run"
                    /\ parsed.ok => toasts[j].description = "JSON must be an array of rows"
                    /\ clicks[k].text = RowX1 =>
                          toasts[j].description = "JSON must be an array of rows"

C3_Witness_ObjectAndUnparsableSubmitted ==
    \E k1, k2 \in JsonSubmissions : clicks[k1].text = RowX1 /\ clicks[k2].text = RowOops

FileCalls == {i \in 1..Len(calls) : calls[i].op = "createRunFromFile"}

C10_State ==
    \A i \in FileCalls :
        LET c == calls[i]
        IN  /\ Truthy(c.args.file)
            /\ c.st = "rejected" =>
                  /\ Cardinality(ToastsOf(c.click)) = 1
                  /\ \A j \in ToastsOf(c.click) :
                        toasts[j].variant = "destructive" /\ toasts[j].description = c.msg
                  /\ route.click # c.click
            /\ route.click = c.click =>
                  c.st = "resolved" /\ route = DetailRoute(c.resp.body.runId, c.click)

C10_Step ==
    \A i \in FileCalls :
        (calls[i].st = "pending" /\ calls'[i].st # "pending") =>
            IF calls'[i].st = "rejected"
            THEN UNCHANGED <<route, file, jsonText, explain>>
            ELSE route' = DetailRoute(calls'[i].resp.body.runId, calls[i].click)

\* C10: on file submission, no createRunFromFile request is issued without
\* a selected file; when the request fails, one failure notification with
\* the thrown error's message is shown, nothing navigates, and the selected
\* file, the pasted text and the explain toggle stay as they are; the
\* submission navigates to the returned run's detail view exactly when the
\* request succeeded.
C10_FileSubmission == []C10_State /\ [][C10_Step]_vars

C10_Witness_OneFailedOneSucceeded ==
    \E i, j \in FileCalls :
        /\ calls[i].st = "rejected"
        /\ calls[j].st = "resolved"
        /\ route.click = calls[j].click

ExportCalls == {i \in 1..Len(calls) : calls[i].op = "exportRunCsv"}

HttpFailed(c) == c.resp.net /\ ~c.resp.ok

\* C4: when the backend answers an export with a non-2xx response,
\* exportRunCsv throws before any blob URL or anchor exists, so nothing is
\* downloaded, and the calling view (list or detail) shows exactly one
\* "Failed to export CSV" notification and no success notification.
C4_FailedExportDownloadsNothing ==
    \A i \in ExportCalls :
        LET c == calls[i]
        IN  HttpFailed(c) =>
              /\ c.st = "rejected"
              /\ DownloadsOf(c.click) = {}
              /\ Cardinality(ToastsOf(c.click)) = 1
              /\ \A j \in ToastsOf(c.click) :
                    /\ toasts[j].title = "Failed to export CSV"
                    /\ toasts[j].variant = "destructive"
                    /\ toasts[j].description = "Failed to export CSV: " \o c.resp.statusText

C4_Witness_FailedFromListAndFromDetail ==
    \E i, j \in ExportCalls :
        /\ HttpFailed(calls[i]) /\ calls[i].by = "Home.handleExport"
        /\ HttpFailed(calls[j]) /\ calls[j].by = "RunDetail.handleExport"

\* What the claim says a row cell shows for a payload.
ClaimedRowText(row) ==
    IF row.t = "str"
    THEN IF JSONParse(row.v).ok THEN JSONStringify2(JSONParse(row.v).val) ELSE row
    ELSE JSONStringify2(row)

\* C5: for every finding that has a row payload, the row cell shows the
\* 2-space-indented re-serialization of the parsed value when the payload
\* is a string that parses as JSON, the string itself when it does not
\* parse, and the 2-space-indented serialization when the payload is
\* already structured.
C5_RowCellShowsPayload ==
    \A n \in 1..Len(FindingsRows) :
        LET f == RunOf.findings.v[n]
        IN  ~Nullish(f.row) => FindingsRows[n].row.text = ClaimedRowText(f.row)

\* C6: the findings table has one row per finding, in the order received;
\* a finding without an index shows its zero-based position, a finding with
\* an index (also 0) shows that index.
C6_OneRowPerFindingWithIndexFallback ==
    (DetailScreen = "content" /\ ~NoFindings) =>
        LET fs == RunOf.findings.v
        IN  /\ Len(FindingsRows) = Len(fs)
            /\ \A n \in 1..Len(fs) :
                  /\ FindingsRows[n].index =
                        (IF fs[n].index.t = "undefined" THEN Num(n - 1) ELSE fs[n].index)
                  /\ FindingsRows[n].type = fs[n].type
                  /\ FindingsRows[n].reason = fs[n].reason
                  /\ FindingsRows[n].row.pre = Truthy(fs[n].row)

C6_Witness_IndexZeroAfterMissingIndex ==
    /\ DetailScreen = "content"
    /\ Len(FindingsRows) = 2
    /\ RunOf.findings.v[1].index = Undefined
    /\ RunOf.findings.v[2].index = Num(0)
    /\ FindingsRows[1].index = Num(0)
    /\ FindingsRows[2].index = Num(0)

\* C7: the explanation panel is rendered exactly when the fetched run has
\* explain = true and a non-empty explanation string.
C7_ExplanationPanelIffExplainAndText ==
    ExplanationPanelRendered <=>
        /\ DetailScreen = "content"
        /\ RunOf.explain = Bool(TRUE)
        /\ RunOf.explanation.t = "str"
        /\ RunOf.explanation.v # <<>>

C7_Witness_ExplainWithoutText ==
    /\ DetailScreen = "content"
    /\ RunOf.explain = Bool(TRUE)
    /\ RunOf.explanation = Str(<<>>)
    /\ ~ExplanationPanelRendered

\* C8: opened without a run identifier, the detail view fails at once with
\* the no-run-ID error as the error the user sees, and no getRun request is
\* ever issued.
C8_NoRunIdShowsNoRunIdError ==
    (DetailShown /\ ~Truthy(route.runId)) =>
        /\ \A i \in 1..Len(calls) : calls[i].op # "getRun"
        /\ DetailScreen = "error"
        /\ ErrorPanelMessage = "No run ID provided"

ListCalls == {i \in 1..Len(calls) : calls[i].op = "listRuns"}

\* The page fetched last before request i was issued, or undefined.
PageBefore(i) ==
    LET earlier == {j \in ListCalls : j < i /\ calls[j].st = "resolved"}
    IN  IF earlier = {} THEN Undefined
        ELSE calls[CHOOSE j \in earlier : \A k \in earlier : k <= j].resp.body

\* C11: pagination fetches are sequential: never are two listRuns page
\* requests outstanding at once, the first request carries no cursor, and
\* the cursor sent with the request for page k+1 is exactly the nextCursor
\* returned in page k.
C11_SequentialPagesWithPreviousCursor ==
    /\ Cardinality({i \in ListCalls : calls[i].st = "pending"}) <= 1
    /\ \A i \in ListCalls :
          LET sentCursor == RequestParam(calls[i].sent[1], "cursor")
              before == PageBefore(i)
          IN  IF before = Undefined THEN sentCursor = Undefined
              ELSE sentCursor = before.nextCursor

ParamNames(req) == {req.params[n].name : n \in 1..Len(req.params)}

Supplied(x) == x # Undefined

\* C12: the URL listRuns requests has a query string with exactly the
\* parameters supplied: limit appears exactly when a limit was supplied
\* (also 0), cursor exactly when a cursor was supplied (also the empty
\* string), and no "?" is appended when neither was supplied.
C12_QueryHoldsExactlyTheSuppliedParameters ==
    \A i \in ListCalls :
        LET c == calls[i]
            req == c.sent[1]
        IN  /\ ("limit" \in ParamNames(req)) <=> Supplied(c.args.limit)
            /\ ("cursor" \in ParamNames(req)) <=> Supplied(c.args.cursor)
            /\ req.query <=> (Supplied(c.args.limit) \/ Supplied(c.args.cursor))

GetRunCalls == {i \in 1..Len(calls) : calls[i].op = "getRun"}

CarriesRun(c) == c.st = "resolved" /\ c.resp.body.run # Undefined

C13_State ==
    (DetailShown /\ Truthy(route.runId)) =>
        /\ Cardinality(GetRunCalls) = 1
        /\ \A i \in GetRunCalls :
              LET c == calls[i]
              IN  /\ c.args.runId = route.runId.v
                  /\ (DetailScreen = "loading") <=> (c.st = "pending")
                  /\ (DetailScreen = "error") <=>
                        (c.st = "rejected" \/ (c.st = "resolved" /\ ~CarriesRun(c)))
                  /\ (DetailScreen = "content") <=> CarriesRun(c)
                  /\ DetailScreen = "content" => RunOf = c.resp.body.run

\* Once the loading indicator is gone it does not come back, and the view
\* does not change between the error panel and the content.
C13_Step ==
    (DetailShown /\ Truthy(route.runId) /\ DetailScreen # "loading") =>
        DetailScreen' = DetailScreen

\* C13: given a non-empty run identifier, the detail view shows the loading
\* indicator exactly while the getRun fetch is outstanding, then the error
\* panel if the fetch threw or its response held no run, and otherwise the
\* run content; run content is never shown before a successful response
\* carrying a run has arrived.
C13_DetailFetchLifecycle == []C13_State /\ [][C13_Step]_vars

C13_Witness_ResponseWithoutRun ==
    /\ DetailShown
    /\ \E i \in GetRunCalls : calls[i].st = "resolved" /\ ~CarriesRun(calls[i])
    /\ DetailScreen = "error"
    /\ ErrorPanelMessage = "Failed to load run details"

PendingCreates ==
    {i \in 1..Len(calls) :
        calls[i].op \in {"createRunFromRows", "createRunFromFile"} /\ calls[i].st = "pending"}

\* C14: in every state of the run list view at most one create-run request
\* (from file or from JSON) is outstanding, and isCreating is true whenever
\* one is outstanding.
C14_AtMostOneCreateOutstanding ==
    HomeShown =>
        /\ Cardinality(PendingCreates) <= 1
        /\ PendingCreates # {} => isCreating

Submissions == {k \in 1..Len(clicks) : clicks[k].h \in {"handleFileUpload", "handleJsonSubmit"}}

C15_State ==
    /\ \A k \in Submissions :
          /\ Cardinality(CallsOf(k)) <= 1
          /\ IF \E i \in CallsOf(k) : calls[i].st = "pending"
             THEN ToastsOf(k) = {}
             ELSE /\ Cardinality(ToastsOf(k)) = 1
                  /\ \A j \in ToastsOf(k) :
                        IF \E i \in CallsOf(k) : calls[i].st = "resolved"
                        THEN toasts[j].title = "Run created successfully"
                        ELSE toasts[j].variant = "destructive"
    /\ (HomeShown /\ isCreating) => \E i \in PendingCreates : calls[i].inst = mount

C15_Step ==
    \A i \in PendingCreates :
        (calls'[i].st # "pending" /\ calls[i].inst = mount) => ~isCreating'

\* C15: after a create-run submission (file or JSON) whose request settles,
\* by success, transport failure or client-side validation failure,
\* isCreating becomes false again, and each submission produces exactly one
\* notification (success or failure): the form never stays in the
\* "Creating run..." state once the request has settled.
C15_CreatingEndsWithOneNotification ==
    /\ []C15_State
    /\ [][C15_Step]_vars
    /\ (isCreating ~> ~isCreating)

C15_Witness_ValidationAndTransportFailure ==
    /\ HomeShown
    /\ ~isCreating
    /\ \E k1, k2 \in Submissions :
          /\ CallsOf(k1) = {} /\ Cardinality(ToastsOf(k1)) = 1
          /\ \E i \in CallsOf(k2) : calls[i].st = "rejected" /\ calls[i].inst = mount
          /\ Cardinality(ToastsOf(k2)) = 1

=============================================================================
